---- MODULE Spec2Model ----
(***************************************************************************)
(* A model of redish.proxy: Proxy (typed item access over a Redis store,   *)
(* with the local "empties" registry) and Namespaced (the key-formatting   *)
(* decorator).                                                             *)
(*                                                                         *)
(* Keys, patterns and byte strings are sequences of one-character strings, *)
(* so that formatting, glob matching and integer parsing are computed.     *)
(* Container elements are the byte strings the store holds.                *)
(***************************************************************************)
EXTENDS Integers, Sequences, FiniteSets, TLC

VARIABLES
    store,    \* the Redis keyspace: key -> stored value
    empties,  \* Proxy.empties: key -> placeholder handle
    last,     \* the last call made, its arguments and what it returned
    pc,       \* per thread: where it is inside __setitem__
    arg,      \* per thread: the key and value of its __setitem__ call
    pline     \* per thread: the commands queued in its pipeline

vars == <<store, empties, last, pc, arg, pline>>

(***************************************************************************)
(* Bounds and input sets                                                   *)
(***************************************************************************)
\* longest native list assigned
MaxLen == 2

Elems == {"x", "y"}

\* keys the callers use on the proxy and through the view
BaseKeys == {<<"a">>}

\* texts assigned: empty, plain, and one that reads as an integer
Texts == {<<>>, <<"t">>, <<"7">>}

\* integers assigned: a falsy one and a truthy one
Ints == {0, 7}

Digits == <<"0", "1", "2", "3", "4", "5", "6", "7", "8", "9">>

Threads == {1, 2}

\* Namespaced.formatstring, "n:%s", with its one substitution slot
formatstring == <<"n", ":", "%s">>

(***************************************************************************)
(* Python values handed to item assignment                                 *)
(***************************************************************************)
NonEmptySubsets(S) == SUBSET S \ {{}}

Lists == UNION {[1..n -> Elems] : n \in 1..MaxLen}

PyInt(n) == [kind |-> "int", n |-> n]
PyText(s) == [kind |-> "text", s |-> s]
PyNone == [kind |-> "None"]
PyList(q) == [kind |-> "list", seq |-> q]
PySet(m) == [kind |-> "set", mem |-> m]
PyDict(f) == [kind |-> "dict", map |-> f]
PyZSet(f) == [kind |-> "ZSet", zmap |-> f]
\* a type with no entry in REV_TYPE_MAP and no isinstance branch
PyTuple(q) == [kind |-> "tuple", seq |-> q]

EmptyMap == [e \in {} |-> "x"]
EmptyZMap == [e \in {} |-> 1]

EmptyContainers == {PyList(<<>>), PySet({}), PyDict(EmptyMap), PyZSet(EmptyZMap)}

NonEmptyContainers ==
    {PyList(q) : q \in Lists}
      \cup {PySet(m) : m \in NonEmptySubsets(Elems)}
      \cup {PyDict([e \in d |-> "x"]) : d \in NonEmptySubsets(Elems)}
      \cup {PyZSet([e \in d |-> 1]) : d \in NonEmptySubsets(Elems)}

Scalars == {PyInt(n) : n \in Ints} \cup {PyText(s) : s \in Texts}

Unsupported == {PyTuple(<<>>), PyTuple(<<"x">>)}

Supported == Scalars \cup {PyNone} \cup EmptyContainers \cup NonEmptyContainers

Values == Supported \cup Unsupported

\* Python truth value: "not value" at proxy.py:87
Truthy(value) ==
    CASE value.kind = "int" -> value.n # 0
      [] value.kind = "text" -> value.s # <<>>
      [] value.kind = "None" -> FALSE
      [] value.kind \in {"list", "tuple"} -> value.seq # <<>>
      [] value.kind = "set" -> value.mem # {}
      [] value.kind = "dict" -> DOMAIN value.map # {}
      [] value.kind = "ZSet" -> DOMAIN value.zmap # {}

(***************************************************************************)
(* The store: values by key, and the commands the proxy sends              *)
(***************************************************************************)
StrVal(s) == [typ |-> "string", s |-> s]
ListVal(q) == [typ |-> "list", seq |-> q]
SetVal(m) == [typ |-> "set", mem |-> m]
HashVal(f) == [typ |-> "hash", map |-> f]
ZSetVal(f) == [typ |-> "zset", zmap |-> f]

EmptyStore == [k \in {} |-> StrVal(<<>>)]

Put(st, key, v) == [k \in DOMAIN st \cup {key} |-> IF k = key THEN v ELSE st[k]]
Drop(f, keys) == [k \in DOMAIN f \ keys |-> f[k]]

exists(st, key) == key \in DOMAIN st

type(st, key) == IF key \in DOMAIN st THEN st[key].typ ELSE "none"

RECURSIVE Match(_, _)
Match(pattern, key) ==
    IF pattern = <<>> THEN key = <<>>
    ELSE IF Head(pattern) = "*"
        THEN Match(Tail(pattern), key) \/ (key # <<>> /\ Match(pattern, Tail(key)))
        ELSE key # <<>> /\ Head(key) = Head(pattern) /\ Match(Tail(pattern), Tail(key))

keys(st, pattern) == {k \in DOMAIN st : Match(pattern, k)}

\* one command applied to the store; a command on a key of another type is
\* refused by the store and changes nothing
Apply(st, c) ==
    LET t == type(st, c.key) IN
    CASE c.cmd = "delete" -> Drop(st, {c.key})
      [] c.cmd = "set" -> Put(st, c.key, StrVal(c.bytes))
      [] c.cmd = "rpush" ->
            IF t = "none" THEN Put(st, c.key, ListVal(<<c.item>>))
            ELSE IF t = "list" THEN Put(st, c.key, ListVal(Append(st[c.key].seq, c.item)))
            ELSE st
      [] c.cmd = "sadd" ->
            IF t = "none" THEN Put(st, c.key, SetVal({c.item}))
            ELSE IF t = "set" THEN Put(st, c.key, SetVal(st[c.key].mem \cup {c.item}))
            ELSE st
      [] c.cmd = "hmset" ->
            IF t = "none" THEN Put(st, c.key, HashVal(c.map))
            ELSE IF t = "hash" THEN Put(st, c.key, HashVal(c.map @@ st[c.key].map))
            ELSE st
      [] c.cmd = "zadd" ->
            IF t = "none" THEN Put(st, c.key, ZSetVal(c.member :> c.score))
            ELSE IF t = "zset"
                THEN Put(st, c.key, ZSetVal((c.member :> c.score) @@ st[c.key].zmap))
            ELSE st

\* pline.execute(): the queued commands, in order, as one unit
RECURSIVE execute(_, _)
execute(st, cmds) ==
    IF cmds = <<>> THEN st ELSE execute(Apply(st, Head(cmds)), Tail(cmds))

(***************************************************************************)
(* Conversions                                                             *)
(***************************************************************************)
IsDigit(c) == \E i \in 1..Len(Digits) : Digits[i] = c

\* whether Python's int(thing) succeeds on a byte string
ParsesAsInt(thing) ==
    LET body == IF thing # <<>> /\ Head(thing) \in {"-", "+"} THEN Tail(thing) ELSE thing
    IN body # <<>> /\ \A i \in 1..Len(body) : IsDigit(body[i])

\* the bytes the client sends for an integer
RECURSIVE DigitsOf(_)
DigitsOf(n) ==
    IF n < 10 THEN <<Digits[n + 1]>> ELSE DigitsOf(n \div 10) \o <<Digits[(n % 10) + 1]>>

IntBytes(n) == IF n < 0 THEN <<"-">> \o DigitsOf(-n) ELSE DigitsOf(n)

(***************************************************************************)
(* What item access returns                                                *)
(***************************************************************************)
\* a typed handle: the class and the key it is bound to
Handle(class, key) == [kind |-> class, key |-> key, text |-> <<>>]
\* a decoded text, returned by value
Text(s) == [kind |-> "text", key |-> <<>>, text |-> s]
Raised(error, key) == [kind |-> error, key |-> key, text |-> <<>>]
Returned(what) == [kind |-> what, key |-> <<>>, text |-> <<>>]

TYPE_MAP == [list |-> "List", set |-> "Set", zset |-> "SortedSet", hash |-> "Dict"]

REV_TYPE_MAP == [list |-> "List", set |-> "Set", dict |-> "Dict", ZSet |-> "SortedSet"]

int_or_str(thing, key) ==
    IF ParsesAsInt(thing) THEN Handle("Int", key) ELSE Text(thing)

(***************************************************************************)
(* Proxy                                                                   *)
(***************************************************************************)
\* Proxy.__getitem__ on a plain key: the result and the registry after it
GetItem(st, em, key) ==
    LET typ == type(st, key) IN
    IF typ = "string" THEN [res |-> int_or_str(st[key].s, key), empties |-> em]
    ELSE IF key \in DOMAIN em /\ typ = "none" THEN [res |-> em[key], empties |-> em]
    ELSE LET em2 == Drop(em, {key}) IN
         IF typ = "none" THEN [res |-> Raised("KeyError", key), empties |-> em2]
         ELSE [res |-> Handle(TYPE_MAP[typ], key), empties |-> em2]

RECURSIVE RPushAll(_, _)
RPushAll(key, q) ==
    IF q = <<>> THEN <<>>
    ELSE <<[cmd |-> "rpush", key |-> key, item |-> Head(q)]>> \o RPushAll(key, Tail(q))

\* iteration order of a set is arbitrary; the commands commute
RECURSIVE SAddAll(_, _)
SAddAll(key, m) ==
    IF m = {} THEN <<>>
    ELSE LET e == CHOOSE e \in m : TRUE
         IN <<[cmd |-> "sadd", key |-> key, item |-> e]>> \o SAddAll(key, m \ {e})

RECURSIVE ZAddAll(_, _, _)
ZAddAll(key, f, left) ==
    IF left = {} THEN <<>>
    ELSE LET e == CHOOSE e \in left : TRUE
         IN <<[cmd |-> "zadd", key |-> key, member |-> e, score |-> f[e]]>>
              \o ZAddAll(key, f, left \ {e})

\* proxy.py:96-106: the commands queued for a truthy value; none for a type
\* that matches no isinstance branch
Serialize(key, value) ==
    CASE value.kind = "list" -> RPushAll(key, value.seq)
      [] value.kind = "set" -> SAddAll(key, value.mem)
      [] value.kind = "dict" -> <<[cmd |-> "hmset", key |-> key, map |-> value.map]>>
      [] value.kind = "ZSet" -> ZAddAll(key, value.zmap, DOMAIN value.zmap)
      [] OTHER -> <<>>

PreludeNoDelete(st, key) == <<>>

\* proxy.py:93-95: the pipeline opens with a delete when the key exists now
Prelude(st, key) ==
    IF exists(st, key) THEN <<[cmd |-> "delete", key |-> key]>> ELSE <<>>

ForgetNothing(em, key) == em

\* proxy.py:79-80: any registry entry for the key goes first
Forget(em, key) == Drop(em, {key})

DeleteNever(st, key) == st

\* proxy.py:88-89: a falsy value removes what the store holds
DeleteIfExists(st, key) ==
    IF exists(st, key) THEN Apply(st, [cmd |-> "delete", key |-> key]) ELSE st

\* Proxy.__setitem__ up to, not including, pline.execute(): the store and the
\* registry so far, the commands queued, and the error raised if any
SetItemBegin(st, em, key, value) ==
    LET em1 == Forget(em, key) IN
    IF value.kind = "int"
        THEN [store |-> Apply(st, [cmd |-> "set", key |-> key, bytes |-> IntBytes(value.n)]),
              empties |-> em1, cmds |-> <<>>, err |-> ""]
    ELSE IF value.kind = "text"
        THEN [store |-> Apply(st, [cmd |-> "set", key |-> key, bytes |-> value.s]),
              empties |-> em1, cmds |-> <<>>, err |-> ""]
    ELSE IF ~Truthy(value)
        THEN LET st1 == DeleteIfExists(st, key) IN
             IF value = PyNone
                 THEN [store |-> st1, empties |-> em1, cmds |-> <<>>, err |-> ""]
             ELSE IF value.kind \in DOMAIN REV_TYPE_MAP
                 THEN [store |-> st1,
                       empties |-> Put(em1, key, Handle(REV_TYPE_MAP[value.kind], key)),
                       cmds |-> <<>>, err |-> ""]
             ELSE [store |-> st1, empties |-> em1, cmds |-> <<>>, err |-> "KeyError"]
    ELSE [store |-> st, empties |-> em1, cmds |-> Prelude(st, key) \o Serialize(key, value),
          err |-> ""]

\* Proxy.__setitem__, whole
SetItem(st, em, key, value) ==
    LET b == SetItemBegin(st, em, key, value)
    IN [store |-> execute(b.store, b.cmds), empties |-> b.empties, err |-> b.err]

\* Proxy.__contains__
Contains(st, em, key) == exists(st, key) \/ key \in DOMAIN em

DelItemStoreOnly(st, em, k) == [store |-> Drop(st, {k}), empties |-> em, err |-> ""]

\* Proxy.__delitem__ on a plain key
DelItem(st, em, k) ==
    [store |-> Drop(st, {k}), empties |-> Drop(em, {k}), err |-> ""]

\* Proxy.__delitem__ on a Glob; the store refuses a delete that names no key
DelGlob(st, em, k) ==
    LET ks == keys(st, k)
    IN [store |-> Drop(st, ks), empties |-> Drop(em, ks),
        err |-> IF ks = {} THEN "ResponseError" ELSE ""]

\* Namespaced.format
format(key) ==
    LET RECURSIVE Interpolate(_)
        Interpolate(fmt) ==
            IF fmt = <<>> THEN <<>>
            ELSE IF Head(fmt) = "%s" THEN key \o Interpolate(Tail(fmt))
            ELSE <<Head(fmt)>> \o Interpolate(Tail(fmt))
    IN Interpolate(formatstring)

AllKeys == BaseKeys \cup {format(k) : k \in BaseKeys}

Patterns == {<<"*">>, <<"n", ":", "*">>, <<"a">>}

\* every order in which the store may list a set of keys
Orders(S) == {q \in [1..Cardinality(S) -> S] : \A i, j \in 1..Cardinality(S) : q[i] = q[j] => i = j}

\* Proxy.multikey, consumed to the end, over keys listed in the given order
RECURSIVE multikey(_, _, _)
multikey(st, em, order) ==
    IF order = <<>> THEN [yields |-> <<>>, empties |-> em, res |-> Returned("ok")]
    ELSE LET g == GetItem(st, em, Head(order)) IN
         IF g.res.kind = "KeyError" THEN [yields |-> <<>>, empties |-> g.empties, res |-> g.res]
         ELSE LET rest == multikey(st, g.empties, Tail(order))
              IN [yields |-> <<g.res>> \o rest.yields, empties |-> rest.empties,
                  res |-> rest.res]

\* Namespaced.multikey, consumed to the end, over keys listed in the given order
RECURSIVE ns_multikey(_, _, _)
ns_multikey(st, em, order) ==
    IF order = <<>> THEN [yields |-> <<>>, empties |-> em, res |-> Returned("ok")]
    ELSE LET g == GetItem(st, em, format(Head(order))) IN
         IF g.res.kind = "KeyError" THEN [yields |-> <<>>, empties |-> g.empties, res |-> g.res]
         ELSE LET rest == ns_multikey(st, g.empties, Tail(order))
              IN [yields |-> <<g.res>> \o rest.yields, empties |-> rest.empties,
                  res |-> rest.res]

\* "del view[key]": the class defines __delitem (proxy.py:159), which Python
\* stores as _Namespaced__delitem; item deletion is looked up on the type, not
\* through __getattr__, so the statement raises TypeError and nothing is sent
ns_delitem(st, em, key) == [store |-> st, empties |-> em, err |-> "TypeError"]

\* commands of the inherited Redis client that create a key directly
RawCommands(key) ==
    { [cmd |-> "set", key |-> key, bytes |-> <<"t">>],
      [cmd |-> "rpush", key |-> key, item |-> "x"],
      [cmd |-> "sadd", key |-> key, item |-> "x"],
      [cmd |-> "hmset", key |-> key, map |-> [e \in {"x"} |-> "x"]],
      [cmd |-> "zadd", key |-> key, member |-> "x", score |-> 1] }

(***************************************************************************)
(* Actions: one call by the single caller                                  *)
(***************************************************************************)
Note(op, key, val, res, yields) ==
    [op |-> op, key |-> key, val |-> val, res |-> res, yields |-> yields]

Outcome(err, key) == IF err = "" THEN Returned("ok") ELSE Raised(err, key)

Idle == UNCHANGED <<pc, arg, pline>>

NoCall == [key |-> <<>>, value |-> PyNone]

NoEmpties == [k \in {} |-> Handle("List", k)]

Init ==
    /\ store = EmptyStore
    /\ empties = NoEmpties
    /\ last = Note("init", <<>>, PyNone, Returned("ok"), <<>>)
    /\ pc = [t \in Threads |-> "idle"]
    /\ arg = [t \in Threads |-> NoCall]
    /\ pline = [t \in Threads |-> <<>>]

\* proxy[key]
Get(key) ==
    LET g == GetItem(store, empties, key) IN
    /\ empties' = g.empties
    /\ last' = Note("get", key, PyNone, g.res, <<>>)
    /\ UNCHANGED store
    /\ Idle

\* list(proxy[Glob(pattern)])
GetMany(pattern) ==
    \E order \in Orders(keys(store, pattern)) :
        LET m == multikey(store, empties, order) IN
        /\ empties' = m.empties
        /\ last' = Note("multikey", pattern, PyNone, m.res, m.yields)
        /\ UNCHANGED store
        /\ Idle

\* proxy[key] = value
Set(key, value) ==
    \E r \in {SetItem(store, empties, key, value)} :
    /\ store' = r.store
    /\ empties' = r.empties
    /\ last' = Note("set", key, value, Outcome(r.err, key), <<>>)
    /\ Idle

\* key in proxy
Has(key) ==
    /\ last' = Note("contains", key, PyNone,
                    Returned(IF Contains(store, empties, key) THEN "True" ELSE "False"), <<>>)
    /\ UNCHANGED <<store, empties>>
    /\ Idle

\* del proxy[key]
Del(key) ==
    LET r == DelItem(store, empties, key) IN
    /\ store' = r.store
    /\ empties' = r.empties
    /\ last' = Note("del", key, PyNone, Outcome(r.err, key), <<>>)
    /\ Idle

\* del proxy[Glob(pattern)]
DelMany(pattern) ==
    LET r == DelGlob(store, empties, pattern) IN
    /\ store' = r.store
    /\ empties' = r.empties
    /\ last' = Note("delglob", pattern, PyNone, Outcome(r.err, pattern), <<>>)
    /\ Idle

\* view[key]
NsGet(key) ==
    LET g == GetItem(store, empties, format(key)) IN
    /\ empties' = g.empties
    /\ last' = Note("ns_get", key, PyNone, g.res, <<>>)
    /\ UNCHANGED store
    /\ Idle

\* view[key] = value
NsSet(key, value) ==
    \E r \in {SetItem(store, empties, format(key), value)} :
    /\ store' = r.store
    /\ empties' = r.empties
    /\ last' = Note("ns_set", key, value, Outcome(r.err, format(key)), <<>>)
    /\ Idle

\* key in view
NsHas(key) ==
    /\ last' = Note("ns_contains", key, PyNone,
                    Returned(IF Contains(store, empties, format(key)) THEN "True" ELSE "False"),
                    <<>>)
    /\ UNCHANGED <<store, empties>>
    /\ Idle

\* del view[key]
NsDel(key) ==
    LET r == ns_delitem(store, empties, key) IN
    /\ store' = r.store
    /\ empties' = r.empties
    /\ last' = Note("ns_del", key, PyNone, Outcome(r.err, key), <<>>)
    /\ Idle

\* list(view.multikey(pattern))
NsMany(pattern) ==
    \E order \in Orders(keys(store, pattern)) :
        LET m == ns_multikey(store, empties, order) IN
        /\ empties' = m.empties
        /\ last' = Note("ns_multikey", pattern, PyNone, m.res, m.yields)
        /\ UNCHANGED store
        /\ Idle

\* a key created behind the registry's back: proxy.rpush(key, ..) and the like,
\* or the same command from another client
RawCreate(key, c) ==
    /\ ~exists(store, key)
    /\ store' = Apply(store, c)
    /\ last' = Note("raw", key, PyNone, Returned("ok"), <<>>)
    /\ UNCHANGED empties
    /\ Idle

NextProxy ==
    \/ \E key \in AllKeys : Get(key)
    \/ \E pattern \in Patterns : GetMany(pattern)
    \/ \E key \in AllKeys, value \in Values : Set(key, value)
    \/ \E key \in AllKeys : Has(key)
    \/ \E key \in AllKeys : Del(key)
    \/ \E pattern \in Patterns : DelMany(pattern)

NextView ==
    \/ \E key \in BaseKeys : NsGet(key)
    \/ \E key \in BaseKeys, value \in Values : NsSet(key, value)
    \/ \E key \in BaseKeys : NsHas(key)
    \/ \E key \in BaseKeys : NsDel(key)
    \/ \E pattern \in Patterns : NsMany(pattern)

NextRaw == \E key \in AllKeys : \E c \in RawCommands(key) : RawCreate(key, c)

Next == NextProxy \/ NextView \/ NextRaw

\* one caller, the proxy, the view over it, and raw commands
Spec == Init /\ [][Next]_vars

\* one caller using only the proxy's item access
SpecProxy == Init /\ [][NextProxy]_vars

(***************************************************************************)
(* Two callers inside __setitem__ on the same key                          *)
(***************************************************************************)
ConcKey == <<"a">>

\* the key as one earlier assignment left it
InitConc ==
    /\ \E value \in Supported :
          LET r == SetItem(EmptyStore, NoEmpties, ConcKey, value) IN
          /\ store = r.store
          /\ empties = r.empties
    /\ last = Note("init", <<>>, PyNone, Returned("ok"), <<>>)
    /\ pc = [t \in Threads |-> "idle"]
    /\ arg = [t \in Threads |-> NoCall]
    /\ pline = [t \in Threads |-> <<>>]

\* proxy.py:79-106: the registry entry goes, the existence check is sent, and
\* the pipeline is filled locally
Begin(t, value) ==
    /\ pc[t] = "idle"
    /\ LET b == SetItemBegin(store, empties, ConcKey, value) IN
       /\ store' = b.store
       /\ empties' = b.empties
       /\ pline' = [pline EXCEPT ![t] = b.cmds]
    /\ arg' = [arg EXCEPT ![t] = [key |-> ConcKey, value |-> value]]
    /\ pc' = [pc EXCEPT ![t] = "queued"]
    /\ UNCHANGED last

\* proxy.py:107: pline.execute()
Exec(t) ==
    /\ pc[t] = "queued"
    /\ store' = execute(store, pline[t])
    /\ pc' = [pc EXCEPT ![t] = "done"]
    /\ UNCHANGED <<empties, last, arg, pline>>

NextConc ==
    \/ \E t \in Threads, value \in NonEmptyContainers : Begin(t, value)
    \/ \E t \in Threads : Exec(t)

SpecConc == InitConc /\ [][NextConc]_vars

(***************************************************************************)
(* Properties                                                              *)
(***************************************************************************)
\* the handle class that mirrors a native container type
ClassOf(kind) ==
    CASE kind = "list" -> "List"
      [] kind = "set" -> "Set"
      [] kind = "dict" -> "Dict"
      [] kind = "ZSet" -> "SortedSet"

\* what the store must hold for a native container to read back equal
StoredForm(value) ==
    CASE value.kind = "list" -> ListVal(value.seq)
      [] value.kind = "set" -> SetVal(value.mem)
      [] value.kind = "dict" -> HashVal(value.map)
      [] value.kind = "ZSet" -> ZSetVal(value.zmap)

IsContainer(value) == value.kind \in {"list", "set", "dict", "ZSet"}

\* C1: after assigning an empty list, set or dict to a key, whatever the key
\* held before, the key is contained in the proxy, reading it returns the
\* placeholder handle of the matching class bound to that key rather than
\* KeyError, and the store has no such key.
C1_EmptyAssignReadsBack ==
    (last.op = "set" /\ last.val.kind \in {"list", "set", "dict"} /\ ~Truthy(last.val))
        => /\ last.res.kind = "ok"
           /\ Contains(store, empties, last.key)
           /\ GetItem(store, empties, last.key).res = Handle(ClassOf(last.val.kind), last.key)
           /\ ~exists(store, last.key)

C1_Witness ==
    /\ last.op = "set"
    /\ last.val = PyDict(EmptyMap)
    /\ GetItem(store, empties, last.key).res.kind = "Dict"
    /\ DOMAIN store # {}

\* C2: after assigning a non-empty list, set, mapping or sorted set to a key,
\* whatever the key held before, reading the key returns a handle of the
\* matching class bound to that key, the store holds exactly the assigned
\* contents there (list order kept, nothing of the previous value left), and
\* the key is not registered as empty.
C2_ContainerRoundTrip ==
    (last.op = "set" /\ IsContainer(last.val) /\ Truthy(last.val))
        => /\ last.res.kind = "ok"
           /\ GetItem(store, empties, last.key).res = Handle(ClassOf(last.val.kind), last.key)
           /\ exists(store, last.key)
           /\ store[last.key] = StoredForm(last.val)
           /\ last.key \notin DOMAIN empties

C2_Witness ==
    /\ last.op = "set"
    /\ last.val = PyList(<<"y", "x">>)
    /\ store[last.key] = ListVal(<<"y", "x">>)
    /\ GetItem(store, empties, last.key).res.kind = "List"

\* C3: deleting a plain key leaves it absent from the store and from the
\* registry, not contained in the proxy, and changes no other key's stored
\* value or registry entry.
C3_DeleteRemovesKey ==
    [][last'.op = "del" =>
          /\ ~exists(store', last'.key)
          /\ last'.key \notin DOMAIN empties'
          /\ ~Contains(store', empties', last'.key)
          /\ \A k \in AllKeys \ {last'.key} :
                /\ exists(store', k) <=> exists(store, k)
                /\ exists(store, k) => store'[k] = store[k]
                /\ k \in DOMAIN empties' <=> k \in DOMAIN empties
                /\ k \in DOMAIN empties => empties'[k] = empties[k]]_vars

C3_Witness ==
    /\ last.op = "del"
    /\ last.res.kind = "ok"
    /\ ~Contains(store, empties, last.key)
    /\ DOMAIN store # {}

\* C4: each of get, set, contains and delete applied to a key through the
\* view returns what, and changes the store and the registry as, the same
\* operation applied to the formatted key on the proxy.
C4_ViewMatchesProxy ==
    [][/\ last'.op = "ns_get" =>
             LET g == GetItem(store, empties, format(last'.key)) IN
             /\ last'.res = g.res
             /\ empties' = g.empties
             /\ store' = store
       /\ last'.op = "ns_set" =>
             LET r == SetItem(store, empties, format(last'.key), last'.val) IN
             /\ last'.res = Outcome(r.err, format(last'.key))
             /\ empties' = r.empties
             /\ store' = r.store
       /\ last'.op = "ns_contains" =>
             /\ (last'.res.kind = "True") <=> Contains(store, empties, format(last'.key))
             /\ empties' = empties
             /\ store' = store
       /\ last'.op = "ns_del" =>
             LET r == DelItem(store, empties, format(last'.key)) IN
             /\ last'.res.kind = "ok"
             /\ empties' = r.empties
             /\ store' = r.store]_vars

\* C5: after a read of a key that found a real value in the store, of any
\* type, the key is no longer in the registry.
C5_ReadReconciles ==
    (last.op = "get" /\ exists(store, last.key)) => last.key \notin DOMAIN empties

\* C6: assigning a value whose type has no mapping entry, falsy or truthy,
\* raises the unsupported-type error.
C6_UnsupportedTypeRaises ==
    (last.op = "set" /\ last.val.kind = "tuple") => last.res.kind = "KeyError"

\* C7: iterating a pattern through the view yields exactly one handle per
\* store key matching the pattern as given, each the handle of that key.
C7_ViewIterationYieldsMatches ==
    last.op = "ns_multikey" =>
        /\ last.res.kind = "ok"
        /\ Len(last.yields) = Cardinality(keys(store, last.key))
        /\ \A k \in keys(store, last.key) :
              \E i \in 1..Len(last.yields) :
                  last.yields[i] = GetItem(store, empties, k).res

\* C8: with one caller using only the proxy's item access, from an empty
\* store and registry, no key is both in the store and in the registry.
C8_StoreAndRegistryDisjoint == DOMAIN store \cap DOMAIN empties = {}

C8_Witness ==
    /\ DOMAIN store # {}
    /\ DOMAIN empties # {}
    /\ last.op = "get"
    /\ last.res.kind = "Int"

\* C9: after a delete by pattern that the store accepted, no key matching the
\* pattern is contained in the proxy, registered empty containers included.
C9_PatternDeleteClearsMatches ==
(last.op = "delglob" /\ last.res.kind = "ok") =>
        \A k \in AllKeys : Match(last.key, k) => ~Contains(store, empties, k)

\* C10: when two callers have each finished assigning a non-empty container
\* of the same kind to the same key, the key holds exactly one of the two.
C10_ConcurrentAssignNoMixture ==
    (/\ \A t \in Threads : pc[t] = "done"
     /\ arg[1].value.kind = arg[2].value.kind)
        => /\ exists(store, ConcKey)
           /\ \E t \in Threads : store[ConcKey] = StoredForm(arg[t].value)

====
